---- MODULE Spec2Model ----
(***************************************************************************)
(* Model of tools/parse_races.py: the ValidationReport accumulator, the    *)
(* EntityStore registry and the RaceParser line-classification state       *)
(* machine with its fragment / target / magnitude / condition extraction.  *)
(*                                                                         *)
(* Python str values are TLA+ strings, handled character by character with *)
(* Len, SubSeq and \o.  Optional[str] None is the empty string (both are   *)
(* falsy in the code's tests), Optional[Tuple] None is the empty tuple.    *)
(* A dict is a function keyed by strings, except store.features, whose     *)
(* insertion order the code iterates: it is a sequence of entries that     *)
(* carry their key.                                                        *)
(***************************************************************************)
EXTENDS Integers, Sequences, FiniteSets, TLC

(***************************************************************************)
(* Characters and str methods                                              *)
(***************************************************************************)
UpperLetters == "ABCDEFGHIJKLMNOPQRSTUVWXYZ"

LowerLetters == "abcdefghijklmnopqrstuvwxyz"

Digits == "0123456789"

Ch(s, i) == SubSeq(s, i, i)

Chars(s) == { Ch(s, i) : i \in 1..Len(s) }

UpperSet == Chars(UpperLetters)

LowerSet == Chars(LowerLetters)

DigitSet == Chars(Digits)

AlphaSet == UpperSet \cup LowerSet

AlnumSet == AlphaSet \cup DigitSet

Spaces == {" ", "\t"}

IndexIn(c, alphabet) == CHOOSE i \in 1..Len(alphabet) : Ch(alphabet, i) = c

\* str.lower / str.upper / int on one character, as tables
LowerOf == [c \in UpperSet |-> Ch(LowerLetters, IndexIn(c, UpperLetters))]

UpperOf == [c \in LowerSet |-> Ch(UpperLetters, IndexIn(c, LowerLetters))]

DigitOf == [c \in DigitSet |-> IndexIn(c, Digits) - 1]

RECURSIVE Lower(_)
Lower(s) ==
    IF s = "" THEN ""
    ELSE (IF Ch(s, 1) \in UpperSet THEN LowerOf[Ch(s, 1)] ELSE Ch(s, 1))
         \o Lower(SubSeq(s, 2, Len(s)))

RECURSIVE Upper(_)
Upper(s) ==
    IF s = "" THEN ""
    ELSE (IF Ch(s, 1) \in LowerSet THEN UpperOf[Ch(s, 1)] ELSE Ch(s, 1))
         \o Upper(SubSeq(s, 2, Len(s)))

\* s[i:] with a 1-based first index
From(s, i) == SubSeq(s, i, Len(s))

\* s.startswith(p), s.endswith(p), p in s
StartsWith(s, p) == Len(p) <= Len(s) /\ SubSeq(s, 1, Len(p)) = p

EndsWith(s, p) == Len(p) <= Len(s) /\ SubSeq(s, Len(s) - Len(p) + 1, Len(s)) = p

StartsAt(s, p, i) == i + Len(p) - 1 <= Len(s) /\ SubSeq(s, i, i + Len(p) - 1) = p

Contains(s, p) == \E i \in 1..(Len(s) + 1) : StartsAt(s, p, i)

\* s.find(p), 1-based; 0 when p does not occur
Find(s, p) ==
    IF Contains(s, p)
    THEN CHOOSE i \in 1..(Len(s) + 1) :
             StartsAt(s, p, i) /\ \A j \in 1..(i - 1) : ~StartsAt(s, p, j)
    ELSE 0

\* s.strip(chars) for a set of characters
StripChars(s, cs) ==
    IF \A i \in 1..Len(s) : Ch(s, i) \in cs THEN ""
    ELSE LET a == CHOOSE i \in 1..Len(s) :
                      Ch(s, i) \notin cs /\ \A j \in 1..(i - 1) : Ch(s, j) \in cs
             b == CHOOSE i \in 1..Len(s) :
                      Ch(s, i) \notin cs /\ \A j \in (i + 1)..Len(s) : Ch(s, j) \in cs
         IN SubSeq(s, a, b)

\* s.strip()
Strip(s) == StripChars(s, Spaces)

\* s.split(sep, 1)[-1]: what follows the first sep, or s when sep is absent
AfterFirst(s, sep) ==
    IF Contains(s, sep) THEN From(s, Find(s, sep) + Len(sep)) ELSE s

\* s.split(sep, 1)[0]
BeforeFirst(s, sep) ==
    IF Contains(s, sep) THEN SubSeq(s, 1, Find(s, sep) - 1) ELSE s

\* re.split on one character out of seps: every piece, empty ones included
RECURSIVE SplitOn(_, _)
SplitOn(s, seps) ==
    IF \A i \in 1..Len(s) : Ch(s, i) \notin seps THEN <<s>>
    ELSE LET k == CHOOSE i \in 1..Len(s) :
                      Ch(s, i) \in seps /\ \A j \in 1..(i - 1) : Ch(s, j) \notin seps
         IN <<SubSeq(s, 1, k - 1)>> \o SplitOn(From(s, k + 1), seps)

\* len(s.split()): the number of whitespace-separated words
WordCount(s) ==
    Cardinality({ i \in 1..Len(s) :
                    Ch(s, i) \notin Spaces /\ (i = 1 \/ Ch(s, i - 1) \in Spaces) })

\* [x for x in seq if keep(x)] after mapping, for sequences of strings
RECURSIVE NonEmpty(_)
NonEmpty(seq) ==
    IF seq = <<>> THEN <<>>
    ELSE IF Head(seq) = "" THEN NonEmpty(Tail(seq))
    ELSE <<Head(seq)>> \o NonEmpty(Tail(seq))

\* the end of the maximal run of characters satisfying a class that starts
\* at i (i - 1 when s[i] is not in the class)
RECURSIVE RunEnd(_, _, _)
RunEnd(s, i, cs) ==
    IF i <= Len(s) /\ Ch(s, i) \in cs THEN RunEnd(s, i + 1, cs) ELSE i - 1

\* int(text) for an optionally signed decimal numeral
RECURSIVE Nat10(_)
Nat10(s) ==
    IF s = "" THEN 0
    ELSE 10 * Nat10(SubSeq(s, 1, Len(s) - 1)) + DigitOf[Ch(s, Len(s))]

ToInt(s) ==
    IF Ch(s, 1) = "-" THEN 0 - Nat10(From(s, 2))
    ELSE IF Ch(s, 1) = "+" THEN Nat10(From(s, 2))
    ELSE Nat10(s)

\* str(n) and f"{n:02d}" for n >= 0
RECURSIVE Str10(_)
Str10(n) == IF n < 10 THEN Ch(Digits, n + 1)
            ELSE Str10(n \div 10) \o Ch(Digits, (n % 10) + 1)

Fmt02d(n) == IF n < 10 THEN "0" \o Str10(n) ELSE Str10(n)

(***************************************************************************)
(* slugify, human_id                                                       *)
(***************************************************************************)
\* re.sub(r"[^A-Za-z0-9]+", "_", text)
RECURSIVE SubNonAlnum(_)
SubNonAlnum(s) ==
    IF s = "" THEN ""
    ELSE IF Ch(s, 1) \in AlnumSet THEN Ch(s, 1) \o SubNonAlnum(From(s, 2))
    ELSE LET e == CHOOSE i \in 1..Len(s) :
                      /\ \A j \in 1..i : Ch(s, j) \notin AlnumSet
                      /\ (i = Len(s) \/ Ch(s, i + 1) \in AlnumSet)
         IN "_" \o SubNonAlnum(From(s, e + 1))

slugify(text) == Upper(StripChars(SubNonAlnum(text), {"_"}))

human_id(prefix, code, suffix) ==
    prefix \o "_" \o slugify(code) \o (IF suffix # "" THEN "_" \o slugify(suffix) ELSE "")

(***************************************************************************)
(* ParserConfig defaults                                                   *)
(***************************************************************************)
\* an ordered dict is a sequence of <<key, value>> pairs
attribute_aliases ==
    << <<"physical", "PHYSICAL">>, <<"mental", "MENTAL">>,
       <<"will", "WILL">>, <<"spiritual", "SPIRITUAL">> >>

SkillNames ==
    << "Battle", "Feat of Strength", "Feat of Agility", "Conceal",
       "Resist Toxins", "Psionic Technique", "Academic Recall", "Translate",
       "Search", "Resist Psionics", "Worship", "Sense Supernatural",
       "Resist Supernatural", "Attune Wonderous Item", "Divine Intervention",
       "Will Dakar", "Endure", "Persevere", "Feat of Austerity",
       "Feat of Defiance", "Track", "Craft", "Forage", "Navigate", "Heal",
       "Animal Husbandry", "Intimidate", "Seduce", "Perform", "Trade",
       "Gather Intelligence", "Deceive", "Interpret", "Deduce", "Identify",
       "Parley", "Artistry", "Incite Fate", "Martial Prowess",
       "Ildakar Faculty" >>

\* {name.lower(): slugify(name) for name in names}, in order
Aliases(names) == [i \in 1..Len(names) |-> <<Lower(names[i]), slugify(names[i])>>]

skill_aliases ==
    Aliases(SkillNames)
    \o << <<"counter will dakar", "WILL_DAKAR">>, <<"deception", "DECEIVE">> >>

language_aliases == <<>>

size_aliases ==
    [tiny |-> "TINY", small |-> "SMALL", medium |-> "MEDIUM",
     large |-> "LARGE", huge |-> "HUGE"]

default_category == "trait"

known_lineage_names == <<"Inin", "Anz", "Phi'ilin", "Cerevu", "Venii", "Freinin">>

culture_lineage_map ==
    [k \in {"bryonin", "ecthvasin", "ganzenonin", "georothin", "grazin",
            "jiinin", "kaindorin", "letelin", "melfarionin", "rivanonin",
            "rodonin", "thairin", "thuilin"} |-> "Inin"]
    @@ [k \in {"east anzar", "west anzar"} |-> "Anz"]
    @@ [k \in {"elari", "laigoni", "rodini"} |-> "Phi'ilin"]
    @@ [k \in {"darii", "cerii"} |-> "Cerevu"]
    @@ [k \in {"agunic", "unfaic"} |-> "Venii"]
    @@ [k \in {"freinin"} |-> "Freinin"]

\* d.get(k, default)
DictGet(d, k, default) == IF k \in DOMAIN d THEN d[k] ELSE default

\* the dict RaceParser.parse builds from config.known_lineages
known_lineages ==
    LET Last(names, k) == CHOOSE i \in 1..Len(names) :
                              /\ Lower(names[i]) = k
                              /\ \A j \in (i + 1)..Len(names) : Lower(names[j]) # k
        Dict(names) == [k \in { Lower(names[i]) : i \in 1..Len(names) } |->
                           names[Last(names, k)]]
    IN Dict(known_lineage_names)

(***************************************************************************)
(* Regular expressions of the recognizers and extractors                   *)
(***************************************************************************)
\* re.fullmatch(r"[A-Z][A-Za-z'\- ]+", line)
HeadingMatch(line) ==
    /\ Len(line) >= 2
    /\ Ch(line, 1) \in UpperSet
    /\ \A i \in 2..Len(line) : Ch(line, i) \in AlphaSet \/ Ch(line, i) \in {"'", "-", " "}

\* the positions where r"[+-]\d" matches
SignedAt(s, i) == i < Len(s) /\ Ch(s, i) \in {"+", "-"} /\ Ch(s, i + 1) \in DigitSet

\* re.search(r"[+-]\d", s)
HasSigned(s) == \E i \in 1..Len(s) : SignedAt(s, i)

\* the end of a match of r"[+-]?\d+" that starts at i, 0 when there is none
NumberEnd(s, i) ==
    LET Digits1(d, e) == IF e >= d THEN e ELSE 0
        From1(d) == Digits1(d, RunEnd(s, d, DigitSet))
    IN From1(IF i <= Len(s) /\ Ch(s, i) \in {"+", "-"} THEN i + 1 ELSE i)

\* the least member of a non-empty set of indices
Least(S) == CHOOSE i \in S : \A j \in S : i <= j

\* re.search(r"size[: ]+([A-Za-z]+)", line, IGNORECASE).group(1), "" for no match
SizeMatch(line) ==
    LET low == Lower(line)
        ok(i) == /\ StartsAt(low, "size", i)
                 /\ RunEnd(line, i + 4, {":", " "}) >= i + 4
                 /\ RunEnd(line, RunEnd(line, i + 4, {":", " "}) + 1, AlphaSet)
                        > RunEnd(line, i + 4, {":", " "})
        hits == { i \in 1..Len(line) : ok(i) }
    IN IF hits = {} THEN ""
       ELSE LET i == Least(hits)
                a == RunEnd(line, i + 4, {":", " "}) + 1
            IN SubSeq(line, a, RunEnd(line, a, AlphaSet))

\* re.search(r"movement[: ]+(\d+)", line, IGNORECASE).group(1), "" for no match
MoveMatch(line) ==
    LET low == Lower(line)
        ok(i) == /\ StartsAt(low, "movement", i)
                 /\ RunEnd(line, i + 8, {":", " "}) >= i + 8
                 /\ RunEnd(line, RunEnd(line, i + 8, {":", " "}) + 1, DigitSet)
                        > RunEnd(line, i + 8, {":", " "})
        hits == { i \in 1..Len(line) : ok(i) }
    IN IF hits = {} THEN ""
       ELSE LET i == Least(hits)
                a == RunEnd(line, i + 8, {":", " "}) + 1
            IN SubSeq(line, a, RunEnd(line, a, DigitSet))

\* re.search(r"([+-]?\d+)\s*/\s*spiritual", text, IGNORECASE).group(1)
CapBonusMatch(text) ==
    LET Slash(a, low) == /\ a <= Len(text) /\ Ch(text, a) = "/"
                         /\ StartsAt(low, "spiritual", RunEnd(text, a + 1, {" ", "\t"}) + 1)
        After(e, low) == e > 0 /\ Slash(RunEnd(text, e + 1, {" ", "\t"}) + 1, low)
        Group(i) == SubSeq(text, i, NumberEnd(text, i))
        First(hits) == IF hits = {} THEN "" ELSE Group(Least(hits))
        Search(low) == First({ i \in 1..Len(text) : After(NumberEnd(text, i), low) })
    IN Search(Lower(text))

\* re.search(r"([+-]?\d+)%", text).group(1)
PercentMatch(text) ==
    LET After(e) == e > 0 /\ e < Len(text) /\ Ch(text, e + 1) = "%"
        Group(i) == SubSeq(text, i, NumberEnd(text, i))
        First(hits) == IF hits = {} THEN "" ELSE Group(Least(hits))
    IN First({ i \in 1..Len(text) : After(NumberEnd(text, i)) })

\* re.search(r"([+-]?\d+)", text).group(1)
FlatMatch(text) ==
    LET Group(i) == SubSeq(text, i, NumberEnd(text, i))
        First(hits) == IF hits = {} THEN "" ELSE Group(Least(hits))
    IN First({ i \in 1..Len(text) : NumberEnd(text, i) > 0 })

\* re.findall(r"non-[A-Za-z' ]+", text, IGNORECASE), searching from index a
RECURSIVE NonMatches(_, _)
NonMatches(text, a) ==
    LET low == Lower(text)
        cls == AlphaSet \cup {"'", " "}
        hits == { i \in a..Len(text) :
                    StartsAt(low, "non-", i) /\ RunEnd(text, i + 4, cls) >= i + 4 }
    IN IF hits = {} THEN <<>>
       ELSE LET i == Least(hits)
                e == RunEnd(text, i + 4, cls)
            IN <<SubSeq(text, i, e)>> \o NonMatches(text, e + 1)

\* re.split(r"(?=[+-]\d)", frag): cut before every signed number
RECURSIVE SplitSignedFrom(_, _)
SplitSignedFrom(s, a) ==
    LET later == { i \in (a + 1)..Len(s) : SignedAt(s, i) }
    IN IF later = {} THEN <<From(s, a)>>
       ELSE <<SubSeq(s, a, Least(later) - 1)>> \o SplitSignedFrom(s, Least(later))

SplitSigned(s) ==
    IF SignedAt(s, 1) THEN <<"">> \o SplitSignedFrom(s, 1) ELSE SplitSignedFrom(s, 1)

\* [f(x) for x in seq]
MapStrip(seq, cs) == [i \in 1..Len(seq) |-> StripChars(seq[i], cs)]

\* s.replace(old, "")
RECURSIVE Remove(_, _)
Remove(s, old) ==
    IF Contains(s, old)
    THEN SubSeq(s, 1, Find(s, old) - 1) \o Remove(From(s, Find(s, old) + Len(old)), old)
    ELSE s

(***************************************************************************)
(* Fragment splitting and effect extraction                                *)
(***************************************************************************)
None == ""

NoTuple == <<>>

\* the pieces one sentence contributes to the fragment list
FragmentPieces(frag) ==
    LET Or(pieces) == IF pieces # <<>> THEN pieces ELSE <<frag>>
    IN Or(NonEmpty(MapStrip(SplitSigned(frag), {" ", ","})))

RECURSIVE ExtendAll(_)
ExtendAll(initial) ==
    IF initial = <<>> THEN <<>>
    ELSE FragmentPieces(Head(initial)) \o ExtendAll(Tail(initial))

_split_fragments(text) ==
    ExtendAll(NonEmpty(MapStrip(SplitOn(text, {".", ";"}), {" ", "\t"})))

\* the first entry of an alias table whose alias occurs in lowered, 0 for none
FirstAlias(aliases, lowered) ==
    LET First(hits) == IF hits = {} THEN 0 ELSE Least(hits)
    IN First({ i \in 1..Len(aliases) : Contains(lowered, aliases[i][1]) })

\* the code of that entry, None for none
AliasCode(aliases, lowered) ==
    LET Code(i) == IF i = 0 THEN None ELSE aliases[i][2]
    IN Code(FirstAlias(aliases, lowered))

_extract_magnitude(text, effect_type) ==
    LET Cap(bonus_value, step) ==
            [cap_progression |-> [k \in { Str10(i) : i \in 0..6 } |-> step * ToInt(k)],
             cap_step |-> step,
             per_spiritual |-> bonus_value]
        Rule(lowered) ==
            IF Contains(lowered, "advantage") THEN [rule |-> "advantage"]
            ELSE IF Contains(lowered, "disadvantage") THEN [rule |-> "disadvantage"]
            ELSE IF Contains(lowered, "free action") THEN [rule |-> "free_action"]
            ELSE NoTuple
        Magnitude(cap_bonus, percent, flat) ==
            IF effect_type = "deity_relationship_cap" /\ cap_bonus # ""
            THEN Cap(ToInt(cap_bonus), 10 + ToInt(cap_bonus))
            ELSE IF percent # "" THEN [percent |-> ToInt(percent)]
            ELSE IF flat # "" THEN [flat |-> ToInt(flat)]
            ELSE Rule(Lower(text))
    IN Magnitude(CapBonusMatch(text), PercentMatch(text), FlatMatch(text))

Condition(condition_type, condition_value) ==
    [condition_type |-> condition_type, condition_value |-> condition_value]

\* the nested add(): append unless an equal record is already listed
AddCondition(conditions, c) ==
    IF \E i \in 1..Len(conditions) : conditions[i] = c THEN conditions
    ELSE Append(conditions, c)

RECURSIVE AddOpponents(_, _)
AddOpponents(conditions, matches) ==
    IF matches = <<>> THEN conditions
    ELSE AddOpponents(AddCondition(conditions, Condition("opponent", Strip(Head(matches)))),
                      Tail(matches))

\* a rule whose condition value is the text that follows the keyword
KeywordCondition(text, lowered, conditions, keyword, condition_type) ==
    IF Contains(lowered, keyword)
    THEN AddCondition(conditions,
                      Condition(condition_type, Strip(AfterFirst(text, keyword))))
    ELSE conditions

\* each rule takes the list built so far; the last lines apply the rules in the
\* order of the code
_extract_conditions(text) ==
    LET Rules(lowered) ==
            LET Swamp(c) ==
                    IF Contains(lowered, "swamp") \/ Contains(lowered, "swampland")
                    THEN AddCondition(c, Condition("environment", [equals |-> "swampland"]))
                    ELSE c
                Dark(c) ==
                    IF Contains(lowered, "dark")
                    THEN AddCondition(c, Condition("lighting", [equals |-> "darkness"]))
                    ELSE c
                Indoor(c) ==
                    IF Contains(lowered, "indoor") \/ Contains(lowered, "indoors")
                    THEN AddCondition(c, Condition("environment", [equals |-> "indoor"]))
                    ELSE c
                Ally(c) ==
                    IF Contains(lowered, "adjacent") /\ Contains(lowered, "ally")
                    THEN AddCondition(c, Condition("ally_state", "adjacent_ally"))
                    ELSE c
                Once(c) ==
                    IF Contains(lowered, "once per")
                    THEN AddCondition(c, Condition("usage_frequency", "once"))
                    ELSE c
            IN KeywordCondition(text, lowered,
                   KeywordCondition(text, lowered,
                       KeywordCondition(text, lowered,
                           KeywordCondition(text, lowered,
                               Once(Ally(Indoor(Dark(Swamp(<<>>))))),
                               "while", "while"),
                           "when", "when"),
                       "if", "if"),
                   "against", "opponent")
    IN AddOpponents(Rules(Lower(text)), NonMatches(text, 1))

(***************************************************************************)
(* ValidationReport                                                        *)
(***************************************************************************)
NewReport == [unparsed_lines |-> <<>>, unparsed_effects |-> <<>>, warnings |-> <<>>]

add_unparsed_line(r, text) == [r EXCEPT !.unparsed_lines = Append(@, text)]

add_unparsed_effect(r, text) == [r EXCEPT !.unparsed_effects = Append(@, text)]

add_warning(r, text) == [r EXCEPT !.warnings = Append(@, text)]

\* bool(x) for a list
Truthy(list) == Len(list) > 0

\* has_errors as it would be if warnings counted as errors
has_errors_counting_warnings(r) ==
    Truthy(IF Truthy(r.unparsed_lines) THEN r.unparsed_lines
           ELSE IF Truthy(r.unparsed_effects) THEN r.unparsed_effects
           ELSE r.warnings)

\* bool(self.unparsed_lines or self.unparsed_effects)
has_errors(r) ==
    Truthy(IF Truthy(r.unparsed_lines) THEN r.unparsed_lines ELSE r.unparsed_effects)

(***************************************************************************)
(* EntityStore.  Every operation returns the new store and, where the      *)
(* method returns one, the identifier as ret.                              *)
(***************************************************************************)
EmptyStore ==
    [attributes |-> <<>>, skills |-> <<>>, languages |-> <<>>, lineages |-> <<>>,
     cultures |-> <<>>, features |-> <<>>, effects |-> <<>>,
     effect_counters |-> <<>>, lineage_codes |-> <<>>, culture_codes |-> <<>>]

\* d[k] = v for a dict or an entity d and a key that may be new
DictSet(d, k, v) == (k :> v) @@ d

\* "return self.<registry>[code].id" with the store as the method left it
ReturnId(st2, registry, code) == [store |-> st2, ret |-> st2[registry][code].id]

\* ensure_attribute as it would be if a repeated call stored its arguments again
ensure_attribute_overwriting(st, name, description) ==
    LET Ensure(code) ==
            ReturnId([st EXCEPT !.attributes =
                         DictSet(@, code, [id |-> human_id("ATTR", code, None),
                                           code |-> code, name |-> Strip(name),
                                           description |-> description])],
                     "attributes", code)
    IN Ensure(slugify(name))

ensure_attribute(st, name, description) ==
    LET Ensure(code) ==
            ReturnId(IF code \notin DOMAIN st.attributes
                     THEN [st EXCEPT !.attributes =
                              DictSet(@, code, [id |-> human_id("ATTR", code, None),
                                                code |-> code, name |-> Strip(name),
                                                description |-> description])]
                     ELSE st,
                     "attributes", code)
    IN Ensure(slugify(name))

ensure_skill(st, name, description) ==
    LET Ensure(code) ==
            ReturnId(IF code \notin DOMAIN st.skills
                     THEN [st EXCEPT !.skills =
                              DictSet(@, code, [id |-> human_id("SKILL", code, None),
                                                code |-> code, name |-> Strip(name),
                                                description |-> description])]
                     ELSE st,
                     "skills", code)
    IN Ensure(slugify(name))

ensure_language(st, name) ==
    LET Ensure(code) ==
            ReturnId(IF code \notin DOMAIN st.languages
                     THEN [st EXCEPT !.languages =
                              DictSet(@, code, [id |-> human_id("LANG", code, None),
                                                code |-> code, name |-> Strip(name)])]
                     ELSE st,
                     "languages", code)
    IN Ensure(slugify(name))

\* ensure_lineage as it would be if the registry were keyed by the name as written
ensure_lineage_keyed_by_name(st, name) ==
    LET Get(st2, key) == [store |-> st2, ret |-> st2.lineages[key].id]
        Add(code, key, lineage_id) ==
            Get(IF key \notin DOMAIN st.lineages
                THEN [st EXCEPT !.lineages =
                         DictSet(@, key, [id |-> lineage_id, code |-> code,
                                          name |-> Strip(name), size_code |-> None,
                                          movement |-> <<>>, languages |-> <<>>,
                                          description |-> ""]),
                                !.lineage_codes = DictSet(@, lineage_id, code)]
                ELSE st, key)
        Ensure(code) == Add(code, Strip(name), human_id("LIN", code, None))
    IN Ensure(slugify(name))

ensure_lineage(st, name) ==
    LET Add(code, lineage_id) ==
            ReturnId(IF code \notin DOMAIN st.lineages
                     THEN [st EXCEPT !.lineages =
                              DictSet(@, code, [id |-> lineage_id, code |-> code,
                                                name |-> Strip(name), size_code |-> None,
                                                movement |-> <<>>, languages |-> <<>>,
                                                description |-> ""]),
                                     !.lineage_codes = DictSet(@, lineage_id, code)]
                     ELSE st,
                     "lineages", code)
        Ensure(code) == Add(code, human_id("LIN", code, None))
    IN Ensure(slugify(name))

ensure_culture(st, name, lineage_id) ==
    LET Add(code, culture_id) ==
            ReturnId(IF code \notin DOMAIN st.cultures
                     THEN [st EXCEPT !.cultures =
                              DictSet(@, code, [id |-> culture_id, code |-> code,
                                                lineage_id |-> lineage_id,
                                                name |-> Strip(name), languages |-> <<>>,
                                                description |-> ""]),
                                     !.culture_codes = DictSet(@, culture_id, code)]
                     ELSE st,
                     "cultures", code)
        Ensure(code, lineage_code) ==
            Add(code, human_id("CUL", lineage_code \o "_" \o code, None))
    IN Ensure(slugify(name), DictGet(st.lineage_codes, lineage_id, slugify(lineage_id)))

_source_code(st, source_type, source_id) ==
    LET Code(default) ==
            IF source_type = "lineage" THEN DictGet(st.lineage_codes, source_id, default)
            ELSE IF source_type = "culture"
            THEN DictGet(st.culture_codes, source_id, default)
            ELSE default
    IN Code(slugify(source_id))

\* store.features is an insertion-ordered dict: a sequence of <<key, feature>>
FeatureIndex(features, key) ==
    LET First(hits) == IF hits = {} THEN 0 ELSE Least(hits)
    IN First({ i \in 1..Len(features) : features[i][1] = key })

\* add_feature as it would be if it returned the dict key instead of the id
add_feature_returning_key(st, source_type, source_id, name, category, description) ==
    LET Get(st2, key) == [store |-> st2, ret |-> key]
        Add(code, key, feature_id) ==
            Get(IF FeatureIndex(st.features, key) = 0
                THEN [st EXCEPT !.features =
                         Append(@, <<key, [id |-> feature_id, code |-> code,
                                           source_type |-> source_type,
                                           source_id |-> source_id,
                                           name |-> Strip(name), category |-> category,
                                           description |-> description]>>)]
                ELSE st, key)
        Ensure(code, source_code) ==
            Add(code, source_id \o ":" \o code,
                human_id("FEAT", source_code \o "_" \o code, None))
    IN Ensure(slugify(name), _source_code(st, source_type, source_id))

add_feature(st, source_type, source_id, name, category, description) ==
    LET Get(st2, key) ==
            [store |-> st2, ret |-> st2.features[FeatureIndex(st2.features, key)][2].id]
        Add(code, key, feature_id) ==
            Get(IF FeatureIndex(st.features, key) = 0
                THEN [st EXCEPT !.features =
                         Append(@, <<key, [id |-> feature_id, code |-> code,
                                           source_type |-> source_type,
                                           source_id |-> source_id,
                                           name |-> Strip(name), category |-> category,
                                           description |-> description]>>)]
                ELSE st, key)
        Ensure(code, source_code) ==
            Add(code, source_id \o ":" \o code,
                human_id("FEAT", source_code \o "_" \o code, None))
    IN Ensure(slugify(name), _source_code(st, source_type, source_id))

\* _next_effect_id as it would be if one counter served all features
_next_effect_id_one_counter(st, feature_id) ==
    LET Next1(n) == [store |-> [st EXCEPT !.effect_counters = DictSet(@, feature_id, n)],
                     ret |-> feature_id \o "_E" \o Fmt02d(n)]
    IN Next1(Len(st.effects) + 1)

\* the store after _next_effect_id, and the identifier it returns
_next_effect_id(st, feature_id) ==
    LET Next1(n) == [store |-> [st EXCEPT !.effect_counters = DictSet(@, feature_id, n)],
                     ret |-> feature_id \o "_E" \o Fmt02d(n)]
    IN Next1(DictGet(st.effect_counters, feature_id, 0) + 1)

add_effect(st, feature_id, effect_type, target, magnitude, applies_automatically, conditions) ==
    LET Add(nx) ==
            [nx.store EXCEPT !.effects =
                Append(@, [id |-> nx.ret, feature_id |-> feature_id,
                           effect_type |-> effect_type, target |-> target,
                           magnitude |-> magnitude,
                           applies_automatically |-> applies_automatically,
                           conditions |-> conditions])]
    IN Add(_next_effect_id(st, feature_id))

\* the loop of RaceParser.__init__ over config.attribute_aliases.values()
RECURSIVE EnsureAttributes(_, _)
EnsureAttributes(st, aliases) ==
    IF aliases = <<>> THEN st
    ELSE EnsureAttributes(ensure_attribute(st, Head(aliases)[2], "").store, Tail(aliases))

NewParserStore == EnsureAttributes(EmptyStore, attribute_aliases)

(***************************************************************************)
(* RaceParser helpers                                                      *)
(***************************************************************************)
_current_container(current_lineage, current_culture) ==
    IF current_culture # NoTuple THEN <<"culture", current_culture[2]>>
    ELSE IF current_lineage # NoTuple THEN <<"lineage", current_lineage[2]>>
    ELSE NoTuple

\* the lookup as it would be if the registries were searched by the name as
\* written instead of its code
LookupFound_by_name(st, container) ==
    LET Found(code) == \/ container[1] = "lineage" /\ code \in DOMAIN st.lineages
                       \/ container[1] = "culture" /\ code \in DOMAIN st.cultures
    IN Found(container[2])

\* _lookup_entity raises (KeyError, ValueError) exactly when this is false
LookupFound(st, container) ==
    LET Found(code) == \/ container[1] = "lineage" /\ code \in DOMAIN st.lineages
                       \/ container[1] = "culture" /\ code \in DOMAIN st.cultures
    IN Found(slugify(container[2]))

_lookup_entity(st, container) ==
    LET Entity(code) == IF container[1] = "lineage" THEN st.lineages[code]
                        ELSE st.cultures[code]
    IN Entity(slugify(container[2]))

\* writes through the reference _lookup_entity returned
StoreEntity(st, container, entity) ==
    LET Write(code) == IF container[1] = "lineage"
                       THEN [st EXCEPT !.lineages[code] = entity]
                       ELSE [st EXCEPT !.cultures[code] = entity]
    IN Write(slugify(container[2]))

\* entity.get(field, default)
GetField(entity, field, default) ==
    IF field \in DOMAIN entity THEN entity[field] ELSE default

\* what _classify_target returns for a skill or an attribute: the effect type
\* and the target with the identifier ensure_skill / ensure_attribute gave
EnsuredTarget(effect_type, target_type, code, e) ==
    [effect_type |-> effect_type, store |-> e.store,
     target |-> [type |-> target_type, code |-> code, id |-> e.ret]]

\* the rules as they would be if attribute aliases were tried before skill aliases
ClassifyLowered_attribute_first(st, lowered, skill_code, attribute_code) ==
    LET Plain(effect_type, target) ==
            [effect_type |-> effect_type, store |-> st, target |-> target]
    IN IF Contains(lowered, "deity relationship")
       THEN Plain("deity_relationship_cap", [type |-> "deity_relationship_cap"])
       ELSE IF Contains(lowered, "psi") /\ Contains(lowered, "point")
       THEN Plain("resource_bonus", [type |-> "resource", code |-> "PSI_POINTS"])
       ELSE IF Contains(lowered, "damage")
       THEN Plain("damage_modifier", [type |-> "damage"])
       ELSE IF attribute_code # None
       THEN EnsuredTarget("attribute_bonus", "attribute", attribute_code,
                          ensure_attribute(st, attribute_code, ""))
       ELSE IF skill_code # None
       THEN EnsuredTarget("skill_bonus", "skill", skill_code,
                          ensure_skill(st, skill_code, ""))
       ELSE IF Contains(lowered, "movement") \/ Contains(lowered, "speed")
       THEN Plain("movement_mod", [type |-> "movement", mode |-> "walk"])
       ELSE IF Contains(lowered, "language")
       THEN Plain("language_grant", [type |-> "language"])
       ELSE IF Contains(lowered, "resistance")
       THEN Plain("resistance", [type |-> "damage"])
       ELSE IF Contains(lowered, "advantage") \/ Contains(lowered, "disadvantage")
       THEN Plain("advantage_rule", [type |-> "rule"])
       ELSE IF Contains(lowered, "free action")
       THEN Plain("action_cost_mod", [type |-> "action"])
       ELSE IF Contains(lowered, "initiative")
       THEN Plain("derived_stat_bonus", [type |-> "derived_stat", code |-> "INITIATIVE"])
       ELSE Plain(None, <<>>)

\* the rules of _classify_target, given the codes of the first skill alias and
\* of the first attribute alias that occur in lowered (None for none)
ClassifyLowered(st, lowered, skill_code, attribute_code) ==
    LET Plain(effect_type, target) ==
            [effect_type |-> effect_type, store |-> st, target |-> target]
    IN IF Contains(lowered, "deity relationship")
       THEN Plain("deity_relationship_cap", [type |-> "deity_relationship_cap"])
       ELSE IF Contains(lowered, "psi") /\ Contains(lowered, "point")
       THEN Plain("resource_bonus", [type |-> "resource", code |-> "PSI_POINTS"])
       ELSE IF Contains(lowered, "damage")
       THEN Plain("damage_modifier", [type |-> "damage"])
       ELSE IF skill_code # None
       THEN EnsuredTarget("skill_bonus", "skill", skill_code,
                          ensure_skill(st, skill_code, ""))
       ELSE IF attribute_code # None
       THEN EnsuredTarget("attribute_bonus", "attribute", attribute_code,
                          ensure_attribute(st, attribute_code, ""))
       ELSE IF Contains(lowered, "movement") \/ Contains(lowered, "speed")
       THEN Plain("movement_mod", [type |-> "movement", mode |-> "walk"])
       ELSE IF Contains(lowered, "language")
       THEN Plain("language_grant", [type |-> "language"])
       ELSE IF Contains(lowered, "resistance")
       THEN Plain("resistance", [type |-> "damage"])
       ELSE IF Contains(lowered, "advantage") \/ Contains(lowered, "disadvantage")
       THEN Plain("advantage_rule", [type |-> "rule"])
       ELSE IF Contains(lowered, "free action")
       THEN Plain("action_cost_mod", [type |-> "action"])
       ELSE IF Contains(lowered, "initiative")
       THEN Plain("derived_stat_bonus", [type |-> "derived_stat", code |-> "INITIATIVE"])
       ELSE Plain(None, <<>>)

\* target descriptor and store after _classify_target
_classify_target(st, text) ==
    LET lowered == Lower(text)
    IN ClassifyLowered(st, lowered, AliasCode(skill_aliases, lowered),
                       AliasCode(attribute_aliases, lowered))

\* one fragment of _parse_effect_fragments, classified as c
EffectClassified(ps, frag, feature_id, c) ==
    LET magnitude == _extract_magnitude(frag, c.effect_type)
    IN IF c.effect_type = None \/ magnitude = NoTuple
       THEN [ps EXCEPT !.store = c.store,
                       !.report = add_warning(ps.report, "Skipped effect: " \o frag)]
       ELSE [ps EXCEPT !.store =
                add_effect(c.store, feature_id, c.effect_type, c.target, magnitude,
                           ~Contains(Lower(frag), "choice"), _extract_conditions(frag))]

\* the fragment loop of _parse_effect_fragments, over a parser state ps
RECURSIVE EffectFragments(_, _, _)
EffectFragments(ps, fragments, feature_id) ==
    IF fragments = <<>> THEN ps
    ELSE EffectFragments(EffectClassified(ps, Head(fragments), feature_id,
                                          _classify_target(ps.store, Head(fragments))),
                         Tail(fragments), feature_id)

_parse_effect_fragments(ps, text, feature_id) ==
    EffectFragments(ps, _split_fragments(text), feature_id)

\* that step as it would be if a fragment without effect type or magnitude
\* were dropped without a report entry
BonusClassified_silent(ps, frag, feature_id, c) ==
    LET magnitude == _extract_magnitude(frag, c.effect_type)
    IN IF c.effect_type = None \/ magnitude = NoTuple
       THEN [ps EXCEPT !.store = c.store]
       ELSE [ps EXCEPT !.store =
                add_effect(c.store, feature_id,
                           IF Contains(frag, "%") /\ c.effect_type = "skill_bonus"
                           THEN "damage_modifier" ELSE c.effect_type,
                           c.target, magnitude, TRUE, _extract_conditions(frag)),
                       !.handled = TRUE]

\* one fragment of _parse_attribute_or_skill_line, classified as c; ps.handled
\* is the flag
BonusClassified(ps, frag, feature_id, c) ==
    LET magnitude == _extract_magnitude(frag, c.effect_type)
    IN IF c.effect_type = None \/ magnitude = NoTuple
       THEN [ps EXCEPT !.store = c.store,
                       !.report = add_warning(ps.report,
                                              "Skipped numeric fragment: " \o frag)]
       ELSE [ps EXCEPT !.store =
                add_effect(c.store, feature_id,
                           IF Contains(frag, "%") /\ c.effect_type = "skill_bonus"
                           THEN "damage_modifier" ELSE c.effect_type,
                           c.target, magnitude, TRUE, _extract_conditions(frag)),
                       !.handled = TRUE]

\* the fragment loop of _parse_attribute_or_skill_line
RECURSIVE BonusFragments(_, _, _)
BonusFragments(ps, fragments, feature_id) ==
    IF fragments = <<>> THEN ps
    ELSE BonusFragments(BonusClassified(ps, Head(fragments), feature_id,
                                        _classify_target(ps.store, Head(fragments))),
                        Tail(fragments), feature_id)

(***************************************************************************)
(* The line recognizers.  A parser state ps holds store, report and the    *)
(* three context slots, plus the scratch fields handled (the recognizer's  *)
(* boolean result), ret (the identifier _parse_feature_line returns) and   *)
(* raised (an exception left the recognizer).                              *)
(***************************************************************************)
Declined(ps) == [ps EXCEPT !.handled = FALSE]

Raised(ps) == [ps EXCEPT !.raised = TRUE, !.handled = FALSE]

\* the entity after the two assignments of _parse_size_movement_line
SizeMovementEntity(entity, size_match, move_match) ==
    LET Sized(e, raw_size) ==
            IF size_match # ""
            THEN DictSet(e, "size_code", DictGet(size_aliases, raw_size, slugify(raw_size)))
            ELSE e
        Moved(e) ==
            IF move_match # ""
            THEN DictSet(e, "movement",
                          DictSet(GetField(e, "movement", <<>>), "walk", ToInt(move_match)))
            ELSE e
    IN Moved(Sized(entity, Lower(size_match)))

_parse_size_movement_line(ps, line) ==
    LET size_match == SizeMatch(line)
        move_match == MoveMatch(line)
        container == _current_container(ps.current_lineage, ps.current_culture)
    IN IF size_match = "" /\ move_match = "" THEN Declined(ps)
       ELSE IF container = NoTuple THEN Declined(ps)
       ELSE IF ~LookupFound(ps.store, container) THEN Raised(ps)
       ELSE [ps EXCEPT !.store =
                StoreEntity(ps.store, container,
                            SizeMovementEntity(_lookup_entity(ps.store, container),
                                               size_match, move_match)),
                       !.handled = TRUE]

\* target.setdefault("languages", []).append({...})
LanguageGranted(target, language_id) ==
    DictSet(target, "languages",
             Append(GetField(target, "languages", <<>>),
                    [language_id |-> language_id, proficiency |-> "native"]))

\* one language name, after ensure_language returned e
LanguageGrant(ps, e, container) ==
    IF ~LookupFound(e.store, container) THEN Raised([ps EXCEPT !.store = e.store])
    ELSE [ps EXCEPT !.store =
             StoreEntity(e.store, container,
                         LanguageGranted(_lookup_entity(e.store, container), e.ret))]

\* the loop of _parse_language_line over the language names
RECURSIVE LanguageNames(_, _, _)
LanguageNames(ps, names, container) ==
    IF ps.raised THEN ps
    ELSE IF names = <<>> THEN [ps EXCEPT !.handled = TRUE]
    ELSE LanguageNames(
             LanguageGrant(ps,
                           ensure_language(ps.store,
                                           DictGet(language_aliases, Lower(Head(names)),
                                                   Head(names))),
                           container),
             Tail(names), container)

_parse_language_line(ps, line) ==
    LET container == _current_container(ps.current_lineage, ps.current_culture)
    IN IF ~StartsWith(Lower(line), "languages") THEN Declined(ps)
       ELSE IF container = NoTuple THEN Declined(ps)
       ELSE LanguageNames(ps,
                NonEmpty(MapStrip(SplitOn(AfterFirst(line, ":"), {",", "/"}), Spaces)),
                container)

\* the fragment loop of _parse_attribute_or_skill_line, under the feature f.ret
Bonuses(ps, line, f) ==
    BonusFragments([ps EXCEPT !.store = f.store, !.handled = FALSE],
                   _split_fragments(line), f.ret)

\* _parse_attribute_or_skill_line as it would be if the Baseline feature were
\* named after container[0] (the kind) instead of container[1] (the name)
_parse_attribute_or_skill_line_kind_baseline(ps, line, current_feature_id) ==
    LET container == _current_container(ps.current_lineage, ps.current_culture)
    IN IF StartsWith(Lower(line), "feature") THEN Declined(ps)
       ELSE IF ~HasSigned(line) THEN Declined(ps)
       ELSE IF container = NoTuple THEN Declined(ps)
       ELSE IF current_feature_id = None /\ ~LookupFound(ps.store, container) THEN Raised(ps)
       ELSE Bonuses(ps, line,
                    IF current_feature_id = None
                    THEN add_feature(ps.store, container[1],
                                     _lookup_entity(ps.store, container).id,
                                     container[1] \o " Baseline", default_category, "")
                    ELSE [store |-> ps.store, ret |-> current_feature_id])

\* _parse_attribute_or_skill_line as it would be if it gave the bonuses to the
\* Baseline feature also while a feature is open
_parse_attribute_or_skill_line_always_baseline(ps, line, current_feature_id) ==
    LET container == _current_container(ps.current_lineage, ps.current_culture)
    IN IF StartsWith(Lower(line), "feature") THEN Declined(ps)
       ELSE IF ~HasSigned(line) THEN Declined(ps)
       ELSE IF container = NoTuple THEN Declined(ps)
       ELSE IF ~LookupFound(ps.store, container) THEN Raised(ps)
       ELSE Bonuses(ps, line,
                    add_feature(ps.store, container[1],
                                _lookup_entity(ps.store, container).id,
                                container[2] \o " Baseline", default_category, ""))

_parse_attribute_or_skill_line(ps, line, current_feature_id) ==
    LET container == _current_container(ps.current_lineage, ps.current_culture)
    IN IF StartsWith(Lower(line), "feature") THEN Declined(ps)
       ELSE IF ~HasSigned(line) THEN Declined(ps)
       ELSE IF container = NoTuple THEN Declined(ps)
       ELSE IF current_feature_id = None /\ ~LookupFound(ps.store, container) THEN Raised(ps)
       ELSE Bonuses(ps, line,
                    IF current_feature_id = None
                    THEN add_feature(ps.store, container[1],
                                     _lookup_entity(ps.store, container).id,
                                     container[2] \o " Baseline", default_category, "")
                    ELSE [store |-> ps.store, ret |-> current_feature_id])

\* the end of _parse_feature_line, after add_feature returned f
FeatureAdded(ps, f, effect_text) ==
    IF effect_text # ""
    THEN _parse_effect_fragments([ps EXCEPT !.store = f.store, !.ret = f.ret],
                                 effect_text, f.ret)
    ELSE [ps EXCEPT !.store = f.store, !.ret = f.ret]

\* ps.ret is the identifier _parse_feature_line returns
_parse_feature_line(ps, line) ==
    LET lowered == Lower(line)
        is_feature == StartsWith(lowered, "feature")
        is_named_feature == /\ Contains(line, ":")
                            /\ ~StartsWith(lowered, "languages")
                            /\ ~EndsWith(lowered, "features:")
        container == _current_container(ps.current_lineage, ps.current_culture)
        header == IF Contains(line, "-") THEN BeforeFirst(line, "-") ELSE line
        effect_text == IF Contains(line, "-") THEN AfterFirst(line, "-") ELSE ""
        feature_name == IF Contains(header, ":") THEN Strip(BeforeFirst(header, ":"))
                        ELSE Strip(Remove(header, "Feature"))
    IN IF ~(is_feature \/ is_named_feature) THEN [ps EXCEPT !.ret = None]
       ELSE IF container = NoTuple
       THEN [ps EXCEPT !.report = add_unparsed_line(ps.report, line), !.ret = None]
       ELSE IF ~LookupFound(ps.store, container) THEN [Raised(ps) EXCEPT !.ret = None]
       ELSE FeatureAdded(ps,
                         add_feature(ps.store, container[1],
                                     _lookup_entity(ps.store, container).id,
                                     feature_name, default_category, Strip(effect_text)),
                         Strip(effect_text))

\* the index in store.features of the key _feature_key_by_id returns, 0 for None
_feature_key_by_id(st, feature_id) ==
    LET First(hits) == IF hits = {} THEN 0 ELSE Least(hits)
    IN First({ i \in 1..Len(st.features) : st.features[i][2].id = feature_id })

\* f"{description}{separator}{line}"
Joined(description, line) ==
    description \o (IF description # "" THEN "\n" ELSE "") \o line

\* k is the index of the open feature in store.features, 0 for none
_append_description(ps, line, current_feature_id) ==
    LET k == _feature_key_by_id(ps.store, current_feature_id)
        container == _current_container(ps.current_lineage, ps.current_culture)
        Described(entity) ==
            DictSet(entity, "description",
                     Joined(GetField(entity, "description", ""), line))
    IN IF current_feature_id # None /\ k # 0
       THEN [ps EXCEPT !.store.features[k][2].description = Joined(@, line),
                       !.handled = TRUE]
       ELSE IF container = NoTuple THEN Declined(ps)
       ELSE IF ~LookupFound(ps.store, container) THEN Raised(ps)
       ELSE [ps EXCEPT !.store =
                StoreEntity(ps.store, container,
                            Described(_lookup_entity(ps.store, container))),
                       !.handled = TRUE]

(***************************************************************************)
(* RaceParser.parse: the body of the loop over tokens                      *)
(***************************************************************************)
\* the heading branch as it would be if an unrecognized heading were reported
HeadingLine_reporting(ps, heading) ==
    LET lowered == Lower(heading)
        mapped_lineage == DictGet(culture_lineage_map, lowered, None)
        Culture(l, c) ==
            [ps EXCEPT !.store = c.store,
                       !.current_lineage = <<l.ret, mapped_lineage>>,
                       !.current_culture = <<c.ret, heading>>,
                       !.current_feature = None]
        Mapped(l) == Culture(l, ensure_culture(l.store, heading, l.ret))
        Lineage(l) ==
            [ps EXCEPT !.store = l.store,
                       !.current_lineage = <<l.ret, heading>>,
                       !.current_culture = NoTuple,
                       !.current_feature = None]
    IN IF mapped_lineage # None THEN Mapped(ensure_lineage(ps.store, mapped_lineage))
       ELSE IF lowered \notin DOMAIN known_lineages
       THEN [ps EXCEPT !.report = add_unparsed_line(ps.report, heading),
                       !.current_lineage = NoTuple,
                       !.current_culture = NoTuple,
                       !.current_feature = None]
       ELSE Lineage(ensure_lineage(ps.store, heading))

\* the heading branch: l is what ensure_lineage returned, c what ensure_culture
\* returned
HeadingLine(ps, heading) ==
    LET lowered == Lower(heading)
        mapped_lineage == DictGet(culture_lineage_map, lowered, None)
        Culture(l, c) ==
            [ps EXCEPT !.store = c.store,
                       !.current_lineage = <<l.ret, mapped_lineage>>,
                       !.current_culture = <<c.ret, heading>>,
                       !.current_feature = None]
        Mapped(l) == Culture(l, ensure_culture(l.store, heading, l.ret))
        Lineage(l) ==
            [ps EXCEPT !.store = l.store,
                       !.current_lineage = <<l.ret, heading>>,
                       !.current_culture = NoTuple,
                       !.current_feature = None]
    IN IF mapped_lineage # None THEN Mapped(ensure_lineage(ps.store, mapped_lineage))
       ELSE IF lowered \notin DOMAIN known_lineages
       THEN [ps EXCEPT !.current_lineage = NoTuple,
                       !.current_culture = NoTuple,
                       !.current_feature = None]
       ELSE Lineage(ensure_lineage(ps.store, heading))

\* the "subrace of" / "culture of" branch: c is what ensure_culture returned
SubraceLine(ps, line) ==
    LET name == Strip(AfterFirst(line, IF Contains(line, ":") THEN ":" ELSE "of"))
        Culture(c) ==
            [ps EXCEPT !.store = c.store,
                       !.current_culture = <<c.ret, name>>,
                       !.current_feature = None]
    IN IF ps.current_lineage = NoTuple
       THEN [ps EXCEPT !.report = add_unparsed_line(ps.report, line)]
       ELSE Culture(ensure_culture(ps.store, name, ps.current_lineage[1]))

\* d is the state _parse_feature_line left, d.ret the identifier it returned,
\* e the state _append_description left
AfterFeature(d, line) ==
    LET Described(e) ==
            IF e.raised \/ e.handled THEN e
            ELSE [e EXCEPT !.report = add_unparsed_line(e.report, line)]
    IN IF d.raised THEN d
       ELSE IF d.ret # None THEN [d EXCEPT !.current_feature = d.ret]
       ELSE Described(_append_description(d, line, d.current_feature))

\* the step after the inline-bonus recognizer as it would be if a handled
\* bonus line closed the open feature
AfterBonus_closing_feature(c, line) ==
    IF c.raised THEN c
    ELSE IF c.handled THEN [c EXCEPT !.current_feature = None]
    ELSE AfterFeature(_parse_feature_line(c, line), line)

\* c is the state _parse_attribute_or_skill_line left
AfterBonus(c, line) ==
    IF c.raised \/ c.handled THEN c ELSE AfterFeature(_parse_feature_line(c, line), line)

\* b is the state _parse_language_line left
AfterLanguage(b, line) ==
    IF b.raised \/ b.handled THEN b
    ELSE AfterBonus(_parse_attribute_or_skill_line(b, line, b.current_feature), line)

\* a is the state _parse_size_movement_line left
AfterSizeMovement(a, line) ==
    IF a.raised \/ a.handled THEN a
    ELSE AfterLanguage(_parse_language_line(a, line), line)

\* the recognizer cascade from the size/movement line down to "unparsed"
Cascade(ps, line) == AfterSizeMovement(_parse_size_movement_line(ps, line), line)

\* the loop body as it would be without the skip of lines that have no
\* active lineage or culture
LoopBody_unguarded(ps, line) ==
    LET lowered == Lower(line)
    IN IF HeadingMatch(line) /\ WordCount(line) <= 4 THEN HeadingLine(ps, line)
       ELSE IF StartsWith(lowered, "subrace of") \/ StartsWith(lowered, "culture of")
       THEN SubraceLine(ps, line)
       ELSE Cascade(ps, line)

\* the loop body for one token
LoopBody(ps, line) ==
    LET lowered == Lower(line)
    IN IF HeadingMatch(line) /\ WordCount(line) <= 4 THEN HeadingLine(ps, line)
       ELSE IF ps.current_lineage = NoTuple /\ ps.current_culture = NoTuple THEN ps
       ELSE IF StartsWith(lowered, "subrace of") \/ StartsWith(lowered, "culture of")
       THEN SubraceLine(ps, line)
       ELSE Cascade(ps, line)

\* one element of text.splitlines(): blank lines never reach the loop
RawLine(ps, raw) ==
    LET line == Strip(raw)
    IN IF line = "" THEN ps ELSE LoopBody(ps, line)

\* the whole loop over the lines of a text; an exception ends it
RECURSIVE ParseLines(_, _)
ParseLines(ps, lines) ==
    IF lines = <<>> \/ ps.raised THEN ps
    ELSE ParseLines(RawLine(ps, Head(lines)), Tail(lines))

\* the locals parse() starts with, over the parser's own store and report
StartParse(st, rp) ==
    [store |-> st, report |-> rp,
     current_lineage |-> NoTuple, current_culture |-> NoTuple, current_feature |-> None,
     handled |-> FALSE, ret |-> None, raised |-> FALSE]

(***************************************************************************)
(* State                                                                   *)
(***************************************************************************)
VARIABLES
    store,            \* RaceParser.store / the EntityStore under test
    report,           \* RaceParser.report / the ValidationReport under test
    current_lineage,  \* locals of parse()
    current_culture,
    current_feature,
    pc,               \* "loop": inside the for loop; "returned"; "raised"; "idle"
    last,             \* the last operation and its arguments (and result), as strings
    nsteps,           \* how many operations have run
    log,              \* every EntityStore call made so far, as <<method, args..., ret>>
    results           \* what each completed parse() call returned, with its text

vars == <<store, report, current_lineage, current_culture, current_feature,
          pc, last, nsteps, log, results>>

\* Bounds
MaxLines == 3

MaxOps == 4

MaxEntries == 2

MaxCalls == 2

(***************************************************************************)
(* Spec: one parse() call on a fresh RaceParser, one input line per step   *)
(***************************************************************************)
Vocab ==
    { "Inin", "ININ", "Anz", "Grazin", "Notes", "  ",
      "Freinin",
      "Subrace of: Grazin",
      "+2 Battle",
      "Luck: +2 luck",
      "Feature: Swamp Stride - +10 movement while in swampland",
      "Deity Relationship: +2/spiritual",
      "???unparseable???",
      "They dwell in marshes.",
      "Size: Medium",
      "Languages: Common, Elvish" }

Locals == [store |-> store, report |-> report,
           current_lineage |-> current_lineage, current_culture |-> current_culture,
           current_feature |-> current_feature,
           handled |-> FALSE, ret |-> None, raised |-> FALSE]

Init ==
    /\ store = NewParserStore
    /\ report = NewReport
    /\ current_lineage = NoTuple
    /\ current_culture = NoTuple
    /\ current_feature = None
    /\ pc = "loop"
    /\ last = <<"parse">>
    /\ nsteps = 0
    /\ log = {}
    /\ results = <<>>

\* one iteration of "for line in tokens" (a blank raw line yields no token)
Line(raw) ==
    LET Step(ps) ==
            /\ store' = ps.store
            /\ report' = ps.report
            /\ current_lineage' = ps.current_lineage
            /\ current_culture' = ps.current_culture
            /\ current_feature' = ps.current_feature
            /\ pc' = IF ps.raised THEN "raised" ELSE "loop"
    IN /\ pc = "loop"
       /\ nsteps < MaxLines
       /\ Step(RawLine(Locals, raw))
       /\ last' = <<"line", raw>>
       /\ nsteps' = nsteps + 1
       /\ UNCHANGED <<log, results>>

\* return self.store, self.report
Return ==
    /\ pc = "loop"
    /\ pc' = "returned"
    /\ last' = <<"return">>
    /\ results' = Append(results, [store |-> store, report |-> report])
    /\ UNCHANGED <<store, report, current_lineage, current_culture, current_feature,
                   nsteps, log>>

Next == (\E raw \in Vocab : Line(raw)) \/ Return

Spec == Init /\ [][Next]_vars

\* the same over a finite text: the tokens run out, so the for loop is left
\* and the return statement is reached unless an exception ends the call
SpecFair == Spec /\ WF_vars(Return)

(***************************************************************************)
(* SpecSection: the same parse() call, watched from inside the section of  *)
(* the lineage Inin, after the lines "Inin" and "Feature Keen Eyes - ..."  *)
(***************************************************************************)
SectionVocab ==
    { "Subrace of: Inin",
      "Feature Keen Eyes - advantage on Search",
      "They dwell in marshes.",
      "+10% Battle",
      "Feature Rage - +10% Battle",
      "+1 Will by choice",
      "Feature Gift - +1 Will by choice" }

InitSection ==
    LET Start(ps) ==
            /\ store = ps.store
            /\ report = ps.report
            /\ current_lineage = ps.current_lineage
            /\ current_culture = ps.current_culture
            /\ current_feature = ps.current_feature
    IN /\ Start(ParseLines(StartParse(NewParserStore, NewReport),
                           <<"Inin", "Feature Keen Eyes - advantage on Search">>))
       /\ pc = "loop"
       /\ last = <<"line", "Feature Keen Eyes - advantage on Search">>
       /\ nsteps = 0
       /\ log = {}
       /\ results = <<>>

NextSection == (\E raw \in SectionVocab : Line(raw)) \/ Return

SpecSection == InitSection /\ [][NextSection]_vars

(***************************************************************************)
(* SpecReport: a ValidationReport on its own, driven through its methods   *)
(***************************************************************************)
ReportTexts == { "???unparseable???", "Skipped effect: foo" }

Idle ==
    /\ current_lineage = NoTuple
    /\ current_culture = NoTuple
    /\ current_feature = None
    /\ pc = "idle"
    /\ nsteps = 0
    /\ log = {}
    /\ results = <<>>

InitReport ==
    /\ store = EmptyStore
    /\ report = NewReport
    /\ last = <<"ValidationReport">>
    /\ Idle

ReportFrame ==
    UNCHANGED <<store, current_lineage, current_culture, current_feature,
                pc, nsteps, log, results>>

AddUnparsedLine(text) ==
    /\ Len(report.unparsed_lines) < MaxEntries
    /\ report' = add_unparsed_line(report, text)
    /\ last' = <<"add_unparsed_line", text>>
    /\ ReportFrame

AddUnparsedEffect(text) ==
    /\ Len(report.unparsed_effects) < MaxEntries
    /\ report' = add_unparsed_effect(report, text)
    /\ last' = <<"add_unparsed_effect", text>>
    /\ ReportFrame

\* report.warnings.append(text), as the parser does it
AddWarning(text) ==
    /\ Len(report.warnings) < MaxEntries
    /\ report' = add_warning(report, text)
    /\ last' = <<"warnings.append", text>>
    /\ ReportFrame

NextReport ==
    \/ \E text \in ReportTexts : AddUnparsedLine(text)
    \/ \E text \in ReportTexts : AddUnparsedEffect(text)
    \/ \E text \in ReportTexts : AddWarning(text)

SpecReport == InitReport /\ [][NextReport]_vars

(***************************************************************************)
(* SpecExtract: _classify_target and _extract_magnitude, each applied once *)
(* to a fragment made of up to MaxWords of the words below                 *)
(***************************************************************************)
MaxWords == 2

FragmentWords ==
    { "Deity Relationship", "psi points", "damage", "Battle", "Will", "movement",
      "language", "resistance", "advantage", "disadvantage", "free action",
      "initiative", "luck", "+2", "10%" }

RECURSIVE Phrases(_)
Phrases(n) ==
    IF n = 1 THEN FragmentWords
    ELSE Phrases(n - 1) \cup { p \o " " \o w : p \in Phrases(n - 1), w \in FragmentWords }

InitExtract ==
    /\ store = NewParserStore
    /\ report = NewReport
    /\ last \in { <<"fragment", text>> : text \in Phrases(MaxWords) }
    /\ Idle

\* effect_type, target = self._classify_target(frag)
ClassifyTarget ==
    LET Call(c) == /\ store' = c.store
                   /\ last' = <<"_classify_target", last[2], c.effect_type, c.target>>
    IN /\ last[1] = "fragment"
       /\ Call(_classify_target(store, last[2]))
       /\ nsteps' = nsteps + 1
       /\ UNCHANGED <<report, current_lineage, current_culture, current_feature,
                      pc, log, results>>

\* magnitude = self._extract_magnitude(frag, effect_type)
ExtractMagnitude(effect_type) ==
    /\ last[1] = "fragment"
    /\ last' = <<"_extract_magnitude", last[2], effect_type,
                 _extract_magnitude(last[2], effect_type)>>
    /\ nsteps' = nsteps + 1
    /\ UNCHANGED <<store, report, current_lineage, current_culture, current_feature,
                   pc, log, results>>

NextExtract ==
    \/ ClassifyTarget
    \/ \E effect_type \in {None, "skill_bonus", "deity_relationship_cap"} :
           ExtractMagnitude(effect_type)

SpecExtract == InitExtract /\ [][NextExtract]_vars

(***************************************************************************)
(* SpecStore: an EntityStore on its own, called the way the parser calls   *)
(* it (a culture under the id of a stored lineage, a feature under the id  *)
(* of a stored lineage or culture, an effect under a stored feature's id)  *)
(***************************************************************************)
LineageNames == { "Inin", "ININ", "Phi'ilin", " phi-ilin " }

CultureNames == { "Easterners", "EASTERNERS" }

FeatureNames == { "Keen Eyes" }

IdsOf(dict) == { dict[k].id : k \in DOMAIN dict }

FeatureIds(st) == { st.features[i][2].id : i \in 1..Len(st.features) }

InitStore ==
    /\ store = EmptyStore
    /\ report = NewReport
    /\ last = <<"EntityStore">>
    /\ Idle

StoreFrame ==
    /\ nsteps' = nsteps + 1
    /\ log' = log \cup {last'}
    /\ UNCHANGED <<report, current_lineage, current_culture, current_feature, pc, results>>

EnsureAttribute(name, description) ==
    LET Call(a) == /\ store' = a.store
                   /\ last' = <<"ensure_attribute", name, description, a.ret>>
    IN /\ nsteps < MaxOps
       /\ Call(ensure_attribute(store, name, description))
       /\ StoreFrame

EnsureSkill(name, description) ==
    LET Call(k) == /\ store' = k.store
                   /\ last' = <<"ensure_skill", name, description, k.ret>>
    IN /\ nsteps < MaxOps
       /\ Call(ensure_skill(store, name, description))
       /\ StoreFrame

EnsureLanguage(name) ==
    LET Call(g) == /\ store' = g.store
                   /\ last' = <<"ensure_language", name, g.ret>>
    IN /\ nsteps < MaxOps
       /\ Call(ensure_language(store, name))
       /\ StoreFrame

EnsureLineage(name) ==
    LET Call(l) == /\ store' = l.store
                   /\ last' = <<"ensure_lineage", name, l.ret>>
    IN /\ nsteps < MaxOps
       /\ Call(ensure_lineage(store, name))
       /\ StoreFrame

EnsureCulture(name, lineage_id) ==
    LET Call(c) == /\ store' = c.store
                   /\ last' = <<"ensure_culture", name, lineage_id, c.ret>>
    IN /\ nsteps < MaxOps
       /\ Call(ensure_culture(store, name, lineage_id))
       /\ StoreFrame

AddFeature(source_type, source_id, name) ==
    LET Call(f) == /\ store' = f.store
                   /\ last' = <<"add_feature", source_type, source_id, name, f.ret>>
    IN /\ nsteps < MaxOps
       /\ Call(add_feature(store, source_type, source_id, name, default_category, ""))
       /\ StoreFrame

AddEffect(feature_id) ==
    /\ nsteps < MaxOps
    /\ store' = add_effect(store, feature_id, "movement_mod",
                           [type |-> "movement", mode |-> "walk"], [flat |-> 10],
                           TRUE, <<>>)
    /\ last' = <<"add_effect", feature_id>>
    /\ StoreFrame

NextStore ==
    \/ \E description \in {"", "Body"} : EnsureAttribute("Physical", description)
    \/ \E name \in {"Battle", " battle "} : EnsureSkill(name, "")
    \/ \E name \in {"Common", "COMMON"} : EnsureLanguage(name)
    \/ \E name \in LineageNames : EnsureLineage(name)
    \/ \E name \in CultureNames : \E lineage_id \in IdsOf(store.lineages) :
           EnsureCulture(name, lineage_id)
    \/ \E name \in FeatureNames : \E source_id \in IdsOf(store.lineages) :
           AddFeature("lineage", source_id, name)
    \/ \E name \in FeatureNames : \E source_id \in IdsOf(store.cultures) :
           AddFeature("culture", source_id, name)
    \/ \E feature_id \in FeatureIds(store) : AddEffect(feature_id)

SpecStore == InitStore /\ [][NextStore]_vars

(***************************************************************************)
(* SpecEffects: add_effect calls, in any order, on an EntityStore that     *)
(* holds three features of one lineage                                     *)
(***************************************************************************)
InitEffects ==
    /\ store = add_feature(
                   add_feature(
                       add_feature(ensure_lineage(EmptyStore, "Inin").store,
                                   "lineage", "LIN_ININ", "Keen Eyes",
                                   default_category, "").store,
                       "lineage", "LIN_ININ", "Swamp Stride", default_category, "").store,
                   "lineage", "LIN_ININ", "Inin Baseline", default_category, "").store
    /\ report = NewReport
    /\ last = <<"add_feature">>
    /\ Idle

NextEffects == \E feature_id \in FeatureIds(store) : AddEffect(feature_id)

SpecEffects == InitEffects /\ [][NextEffects]_vars

(***************************************************************************)
(* SpecReuse: the life of RaceParser objects: construction, and whole      *)
(* parse() calls, any number of them on the same object                    *)
(***************************************************************************)
ReuseVocab == { "Inin", "+2 Battle", "They dwell in marshes.", "???unparseable???" }

Texts == { <<>> } \cup { <<a>> : a \in ReuseVocab }
                  \cup { <<a, b>> : a \in ReuseVocab, b \in ReuseVocab }

InitReuse ==
    /\ store = NewParserStore
    /\ report = NewReport
    /\ last = <<"RaceParser">>
    /\ Idle

\* parser = RaceParser(config)
Construct ==
    /\ pc = "idle"
    /\ last # <<"RaceParser">>
    /\ store' = NewParserStore
    /\ report' = NewReport
    /\ last' = <<"RaceParser">>
    /\ UNCHANGED <<current_lineage, current_culture, current_feature,
                   pc, nsteps, log, results>>

\* parser.parse(text), from the call to the return
Parse(text) ==
    LET Call(ps) ==
            /\ store' = ps.store
            /\ report' = ps.report
            /\ pc' = IF ps.raised THEN "raised" ELSE "idle"
            /\ results' = IF ps.raised THEN results
                          ELSE Append(results, [text |-> text, store |-> ps.store,
                                                report |-> ps.report])
    IN /\ pc = "idle"
       /\ Len(results) < MaxCalls
       /\ Call(ParseLines(StartParse(store, report), text))
       /\ last' = <<"parse">>
       /\ nsteps' = nsteps + 1
       /\ UNCHANGED <<current_lineage, current_culture, current_feature, log>>

NextReuse == Construct \/ \E text \in Texts : Parse(text)

SpecReuse == InitReuse /\ [][NextReuse]_vars

(***************************************************************************)
(* Properties                                                              *)
(***************************************************************************)
Features(st) == { st.features[i][2] : i \in 1..Len(st.features) }

\* the effects st2 holds beyond those of st (effects are only ever appended)
NewEffects(st, st2) ==
    { st2.effects[i] : i \in (Len(st.effects) + 1)..Len(st2.effects) }

LogOf(method) == { e \in log : e[1] = method }

\* C1: referential integrity: every effect's feature_id is the id of a stored
\* feature, and every feature's source_id is the id of a stored lineage (for
\* source_type lineage) or of a stored culture (for source_type culture).
C1_ReferentialIntegrity ==
    /\ \A i \in 1..Len(store.effects) :
           store.effects[i].feature_id \in FeatureIds(store)
    /\ \A f \in Features(store) :
           \/ f.source_type = "lineage" /\ f.source_id \in IdsOf(store.lineages)
           \/ f.source_type = "culture" /\ f.source_id \in IdsOf(store.cultures)

C1_Witness ==
    /\ Len(store.effects) > 0
    /\ \E f \in Features(store) : f.source_type = "culture"

\* C2: namespacing: two ensure_culture calls with the same name under two
\* different lineages return different identifiers, and the store holds a
\* Culture for each, owned by its own lineage.
C2_Namespacing ==
    \A e1 \in LogOf("ensure_culture") : \A e2 \in LogOf("ensure_culture") :
        (e1[2] = e2[2] /\ e1[3] # e2[3]) =>
            /\ e1[4] # e2[4]
            /\ \E k \in DOMAIN store.cultures :
                   store.cultures[k].id = e1[4] /\ store.cultures[k].lineage_id = e1[3]
            /\ \E k \in DOMAIN store.cultures :
                   store.cultures[k].id = e2[4] /\ store.cultures[k].lineage_id = e2[3]

\* C3: deduplication: no two stored Lineage entities have names that
\* normalize to the same code, and all ensure_lineage calls whose names
\* normalize to the same code returned the same identifier, that of the one
\* stored entity.
C3_Deduplication ==
    /\ \A k1 \in DOMAIN store.lineages : \A k2 \in DOMAIN store.lineages :
           slugify(store.lineages[k1].name) = slugify(store.lineages[k2].name) => k1 = k2
    /\ \A e1 \in LogOf("ensure_lineage") : \A e2 \in LogOf("ensure_lineage") :
           slugify(e1[2]) = slugify(e2[2]) => e1[3] = e2[3]
    /\ \A e \in LogOf("ensure_lineage") :
           Cardinality({ k \in DOMAIN store.lineages :
                           slugify(store.lineages[k].name) = slugify(e[2]) }) = 1

C3_Witness ==
    /\ \E e1 \in LogOf("ensure_lineage") : \E e2 \in LogOf("ensure_lineage") :
           e1[2] = "Inin" /\ e2[2] = "ININ"
    /\ \E e1 \in LogOf("ensure_lineage") : \E e2 \in LogOf("ensure_lineage") :
           e1[2] = "Phi'ilin" /\ e2[2] = " phi-ilin "

\* C4: the line "???unparseable???", met with no active lineage and no active
\* culture, is appended to report.unparsed_lines and changes nothing in the
\* store.
C4_UnparsedRecorded ==
    [][ (/\ last' = <<"line", "???unparseable???">>
         /\ current_lineage = NoTuple
         /\ current_culture = NoTuple)
        => /\ report'.unparsed_lines = Append(report.unparsed_lines, "???unparseable???")
           /\ store' = store ]_vars

\* C5: has_errors() is true exactly when unparsed_lines or unparsed_effects
\* is non-empty, whatever the warnings hold.
C5_HasErrors ==
    has_errors(report) <=> (report.unparsed_lines # <<>> \/ report.unparsed_effects # <<>>)

C5_Witness ==
    /\ Len(report.warnings) = MaxEntries
    /\ report.unparsed_lines = <<>>
    /\ report.unparsed_effects = <<>>
    /\ ~has_errors(report)

\* the precondition of C6: "+2 Battle" is the line being processed, under an
\* active lineage, with no active culture and no open feature
C6_Case ==
    /\ last' = <<"line", "+2 Battle">>
    /\ current_lineage # NoTuple
    /\ current_culture = NoTuple
    /\ current_feature = None

\* the one effect "+2 Battle" adds, owned by feature f
C6_Effect(f) ==
    /\ Len(store'.effects) = Len(store.effects) + 1
    /\ SubSeq(store'.effects, 1, Len(store.effects)) = store.effects
    /\ LET e == store'.effects[Len(store'.effects)]
       IN /\ e.feature_id = f.id
          /\ e.effect_type = "skill_bonus"
          /\ e.target.code = "BATTLE"
          /\ e.magnitude = [flat |-> 2]

\* C6 as stated: the line adds exactly one feature, named "<Lineage> Baseline"
\* and owned by the lineage, and exactly one effect, owned by that feature,
\* of type skill_bonus, target code BATTLE, magnitude {flat: 2}.
C6_AddsOneFeature ==
    [][ C6_Case =>
          /\ Len(store'.features) = Len(store.features) + 1
          /\ SubSeq(store'.features, 1, Len(store.features)) = store.features
          /\ LET f == store'.features[Len(store'.features)][2]
             IN /\ f.name = current_lineage[2] \o " Baseline"
                /\ f.source_type = "lineage"
                /\ f.source_id = current_lineage[1]
                /\ C6_Effect(f) ]_vars

\* C6 amended: the line adds exactly one effect, of type skill_bonus, target
\* code BATTLE, magnitude {flat: 2}, owned by the lineage's Baseline feature
\* (the feature of that lineage whose code is that of "<Lineage> Baseline");
\* that feature is added by the line, with the name "<Lineage> Baseline",
\* exactly when the store does not hold it yet, and no other feature changes.
C6_BaselineBonus ==
    [][ C6_Case =>
          LET key == current_lineage[1] \o ":" \o slugify(current_lineage[2] \o " Baseline")
              k == FeatureIndex(store'.features, key)
          IN /\ k # 0
             /\ store'.features[k][2].source_type = "lineage"
             /\ store'.features[k][2].source_id = current_lineage[1]
             /\ store'.features[k][2].code = slugify(current_lineage[2] \o " Baseline")
             /\ IF FeatureIndex(store.features, key) = 0
                THEN /\ Len(store'.features) = Len(store.features) + 1
                     /\ SubSeq(store'.features, 1, Len(store.features)) = store.features
                     /\ k = Len(store'.features)
                     /\ store'.features[k][2].name = current_lineage[2] \o " Baseline"
                ELSE store'.features = store.features
             /\ C6_Effect(store'.features[k][2]) ]_vars

\* "+2 Battle" has just been processed under a lineage whose Baseline feature
\* an earlier bonus line had already created
C6_Witness ==
    /\ last = <<"line", "+2 Battle">>
    /\ current_lineage # NoTuple
    /\ current_culture = NoTuple
    /\ current_feature = None
    /\ Len(store.features) = 1
    /\ Len(store.effects) = 2

\* C7: the line "Feature: Swamp Stride - +10 movement while in swampland",
\* processed under an active container, adds a feature named "Swamp Stride"
\* and an effect owned by it of type movement_mod, magnitude {flat: 10}, with
\* an environment condition equal to swampland.
C7_SwampStride ==
    [][ (/\ last' = <<"line", "Feature: Swamp Stride - +10 movement while in swampland">>
         /\ (current_lineage # NoTuple \/ current_culture # NoTuple))
        => \E f \in Features(store') :
             /\ f.name = "Swamp Stride"
             /\ f \notin Features(store)
             /\ \E e \in NewEffects(store, store') :
                  /\ e.feature_id = f.id
                  /\ e.effect_type = "movement_mod"
                  /\ e.magnitude = [flat |-> 10]
                  /\ \E j \in 1..Len(e.conditions) :
                       /\ e.conditions[j].condition_type = "environment"
                       /\ e.conditions[j].condition_value = [equals |-> "swampland"] ]_vars

\* C8: the line "Deity Relationship: +2/spiritual", processed under an active
\* container, adds an effect of type deity_relationship_cap whose magnitude
\* has cap_step = 12 and cap_progression mapping each level i of 0..6 to 12*i.
C8_DeityCap ==
    [][ (/\ last' = <<"line", "Deity Relationship: +2/spiritual">>
         /\ (current_lineage # NoTuple \/ current_culture # NoTuple))
        => \E e \in NewEffects(store, store') :
             /\ e.effect_type = "deity_relationship_cap"
             /\ DOMAIN e.magnitude = {"cap_progression", "cap_step", "per_spiritual"}
             /\ e.magnitude.cap_step = 12
             /\ e.magnitude.cap_progression["3"] = 36
             /\ \A i \in 0..6 : e.magnitude.cap_progression[Str10(i)] = 12 * i ]_vars

\* C9: idempotence: any two parse() calls given the same text returned equal
\* stores (entities, effects with their ids, in order) and equal reports.
C9_Idempotent ==
    \A i \in 1..Len(results) : \A j \in 1..Len(results) :
        results[i].text = results[j].text =>
            /\ results[i].store = results[j].store
            /\ results[i].report = results[j].report

\* C10: what a parse() call returns depends only on its text (and the
\* configuration): it is what a parser that has parsed nothing before returns
\* for that text.
C10_NoHiddenState ==
    \A i \in 1..Len(results) :
        LET fresh == ParseLines(StartParse(NewParserStore, NewReport), results[i].text)
        IN /\ results[i].store = fresh.store
           /\ results[i].report = fresh.report

\* the identifier a logged EntityStore call returned
Returned(e) == e[Len(e)]

\* two logged calls of one method that address the same entity: names that
\* normalize to the same code and, for add_feature, the same source id
SameEntity(e1, e2) ==
    /\ e1[1] = e2[1]
    /\ e1[1] # "add_effect"
    /\ IF e1[1] = "add_feature"
       THEN e1[3] = e2[3] /\ slugify(e1[4]) = slugify(e2[4])
       ELSE slugify(e1[2]) = slugify(e2[2])

\* C11: idempotence: an ensure_attribute, ensure_skill, ensure_language,
\* ensure_lineage, ensure_culture or add_feature call whose name normalizes to
\* the code of an earlier call of the same method (for add_feature, with the
\* same source id) returns the identifier that call returned and leaves the
\* store as it was: no entity added, no stored field changed.
C11_EnsureIdempotent ==
    [][ \A e \in log :
          SameEntity(e, last') => (Returned(last') = Returned(e) /\ store' = store) ]_vars

\* ensure_attribute was called with two descriptions and ensure_skill with two
\* spellings of one name, and each registry holds one entity
C11_Witness ==
    /\ \E e1 \in LogOf("ensure_attribute") : \E e2 \in LogOf("ensure_attribute") :
           e1[3] = "" /\ e2[3] = "Body"
    /\ \E e1 \in LogOf("ensure_skill") : \E e2 \in LogOf("ensure_skill") :
           e1[2] = "Battle" /\ e2[2] = " battle "
    /\ Cardinality(DOMAIN store.attributes) = 1
    /\ Cardinality(DOMAIN store.skills) = 1

\* the effects of feature_id, in store order
EffectsOf(st, feature_id) ==
    LET Owned(e) == e.feature_id = feature_id
    IN SelectSeq(st.effects, Owned)

\* C12: in store order, the k-th effect of every feature F has the identifier
\* F_E<k> with k written in two digits from 01: per feature the sequence
\* numbers are 1, 2, 3, ... without gap or repeat, whatever was added to
\* other features in between.
C12_EffectIds ==
    \A F \in FeatureIds(store) :
        \A k \in 1..Len(EffectsOf(store, F)) :
            /\ k <= 9
            /\ EffectsOf(store, F)[k].id
                   = F \o "_E0" \o <<"1", "2", "3", "4", "5", "6", "7", "8", "9">>[k]

\* a feature got its second effect after another feature got one in between
C12_Witness ==
    \E i \in 1..Len(store.effects) : \E j \in 1..Len(store.effects) :
        /\ i + 1 < j
        /\ store.effects[i].feature_id = store.effects[j].feature_id
        /\ store.effects[i + 1].feature_id # store.effects[i].feature_id
        /\ store.effects[j].id = store.effects[j].feature_id \o "_E02"

C14_ContextlessRecorded ==
    [][ \A raw \in { "Subrace of: Grazin",
                     "Feature: Swamp Stride - +10 movement while in swampland" } :
          (/\ last' = <<"line", raw>>
           /\ current_lineage = NoTuple
           /\ (raw = "Subrace of: Grazin" \/ current_culture = NoTuple))
          => /\ report'.unparsed_lines = Append(report.unparsed_lines, raw)
             /\ store' = store ]_vars

\* a line the heading recognizer takes, naming no known culture and no known
\* lineage
UnknownHeading(raw) ==
    /\ HeadingMatch(Strip(raw))
    /\ WordCount(Strip(raw)) <= 4
    /\ Lower(Strip(raw)) \notin DOMAIN culture_lineage_map
    /\ Lower(Strip(raw)) \notin DOMAIN known_lineages

\* C15: a heading that names neither a known culture nor a known lineage
\* clears current_lineage, current_culture and current_feature, leaves the
\* store as it was and adds nothing to the report.
C15_UnknownHeadingClears ==
    [][ \A raw \in Vocab :
          (last' = <<"line", raw>> /\ UnknownHeading(raw))
          => /\ current_lineage' = NoTuple
             /\ current_culture' = NoTuple
             /\ current_feature' = None
             /\ store' = store
             /\ report' = report ]_vars

\* the heading "Notes" has just closed a section that had a culture and a
\* feature
C15_Witness ==
    /\ last = <<"line", "Notes">>
    /\ current_lineage = NoTuple
    /\ current_culture = NoTuple
    /\ current_feature = None
    /\ DOMAIN store.cultures # {}
    /\ Len(store.features) > 0

\* the entity of a registry that has the identifier id, as a set
WithId(registry, id) == { registry[k] : k \in { c \in DOMAIN registry : registry[c].id = id } }

\* C16: a heading naming a known culture (also when it names a known lineage
\* too) ensures the lineage the culture-to-lineage table gives and the
\* Culture under it, sets current_lineage and current_culture to the two and
\* clears current_feature; a heading naming only a known lineage ensures that
\* Lineage, sets current_lineage to it and clears current_culture and
\* current_feature.  Entities already stored stay as they were.
C16_HeadingTransitions ==
    [][ \A raw \in Vocab :
          LET heading == Strip(raw)
              lowered == Lower(heading)
          IN (/\ last' = <<"line", raw>>
              /\ HeadingMatch(heading)
              /\ WordCount(heading) <= 4)
             => /\ lowered \in DOMAIN culture_lineage_map =>
                    /\ current_lineage'[2] = culture_lineage_map[lowered]
                    /\ \E l \in WithId(store'.lineages, current_lineage'[1]) :
                           l.code = slugify(culture_lineage_map[lowered])
                    /\ current_culture'[2] = heading
                    /\ \E c \in WithId(store'.cultures, current_culture'[1]) :
                           /\ c.code = slugify(heading)
                           /\ c.lineage_id = current_lineage'[1]
                    /\ current_feature' = None
                /\ (lowered \notin DOMAIN culture_lineage_map
                    /\ lowered \in DOMAIN known_lineages) =>
                    /\ current_lineage'[2] = heading
                    /\ \E l \in WithId(store'.lineages, current_lineage'[1]) :
                           l.code = slugify(heading)
                    /\ current_culture' = NoTuple
                    /\ current_feature' = None
                /\ \A k \in DOMAIN store.lineages :
                       k \in DOMAIN store'.lineages /\ store'.lineages[k] = store.lineages[k]
                /\ \A k \in DOMAIN store.cultures :
                       k \in DOMAIN store'.cultures /\ store'.cultures[k] = store.cultures[k]
                /\ Cardinality(DOMAIN store'.lineages) <= Cardinality(DOMAIN store.lineages) + 1
                /\ Cardinality(DOMAIN store'.cultures) <= Cardinality(DOMAIN store.cultures) + 1 ]_vars

\* C17: whenever current_culture is set, current_lineage is set and the
\* stored Culture with the identifier of current_culture has the identifier
\* of current_lineage as its lineage_id; right after a "Subrace of" line
\* under an active lineage the current culture is that one and
\* current_feature is none.
C17_CultureOwned ==
    /\ current_culture # NoTuple =>
           /\ current_lineage # NoTuple
           /\ \E c \in WithId(store.cultures, current_culture[1]) :
                  c.lineage_id = current_lineage[1]
    /\ (last = <<"line", "Subrace of: Grazin">> /\ current_lineage # NoTuple) =>
           /\ current_culture # NoTuple
           /\ current_culture[2] = "Grazin"
           /\ current_feature = None

\* the line raw reaches the recognizer cascade: it is no blank line, no
\* heading and no subrace line, and a lineage or a culture is active
ReachesCascade(raw) ==
    /\ Strip(raw) # ""
    /\ ~(HeadingMatch(Strip(raw)) /\ WordCount(Strip(raw)) <= 4)
    /\ (current_lineage # NoTuple \/ current_culture # NoTuple)
    /\ ~StartsWith(Lower(Strip(raw)), "subrace of")
    /\ ~StartsWith(Lower(Strip(raw)), "culture of")

\* C18: first match wins: when the inline-bonus recognizer, reached by a
\* line that the size/movement and language recognizers declined, changes the
\* store or the report, the line changes nothing beyond that: the store and
\* the report are as that recognizer left them and the context is untouched.
C18_FirstMatchWins ==
    [][ \A raw \in Vocab :
          LET line == Strip(raw)
              b == _parse_language_line(_parse_size_movement_line(Locals, line), line)
              c == _parse_attribute_or_skill_line(Locals, line, current_feature)
          IN (/\ last' = <<"line", raw>>
              /\ ReachesCascade(raw)
              /\ ~b.handled
              /\ (c.store # store \/ c.report # report))
             => /\ store' = c.store
                /\ report' = c.report
                /\ current_lineage' = current_lineage
                /\ current_culture' = current_culture
                /\ current_feature' = current_feature ]_vars

\* the features of st that are the Baseline feature of the active container:
\* owned by the current culture if one is set, else by the current lineage,
\* with the code of "<container name> Baseline"
Baselines(st) ==
    LET owner == IF current_culture # NoTuple THEN current_culture ELSE current_lineage
    IN { f \in Features(st) :
           /\ f.source_type = (IF current_culture # NoTuple THEN "culture" ELSE "lineage")
           /\ f.source_id = owner[1]
           /\ f.code = slugify(owner[2] \o " Baseline") }

\* C19: for an inline bonus line (not starting with "feature", holding a
\* signed number) under an active container: with a feature open, every
\* effect the line adds is owned by that feature and the container gets no
\* Baseline feature; with no feature open, every effect the line adds is owned
\* by the container's Baseline feature, of which the store then holds exactly
\* one, added by this line only if it was not there before.
C19_BonusOwner ==
    [][ \A raw \in Vocab :
          (/\ last' = <<"line", raw>>
           /\ ReachesCascade(raw)
           /\ ~StartsWith(Lower(Strip(raw)), "feature")
           /\ HasSigned(Strip(raw)))
          => IF current_feature # None
             THEN /\ \A e \in NewEffects(store, store') : e.feature_id = current_feature
                  /\ Baselines(store') = Baselines(store)
             ELSE /\ Cardinality(Baselines(store')) = 1
                  /\ Baselines(store) \subseteq Baselines(store')
                  /\ \A e \in NewEffects(store, store') :
                         \E f \in Baselines(store') : e.feature_id = f.id ]_vars

\* a second "+2 Battle" under a culture with no feature open: two effects,
\* one Baseline feature
C19_Witness ==
    /\ last = <<"line", "+2 Battle">>
    /\ current_culture # NoTuple
    /\ current_feature = None
    /\ Len(store.effects) = 2
    /\ Cardinality(Baselines(store)) = 1
    /\ Len(store.features) = 1

\* the fragments the line raw passes to effect extraction: those of the whole
\* line if the inline-bonus recognizer takes it, then, if that recognizer did
\* not handle the line and the feature recognizer takes it, those of the text
\* after the first "-"
FragmentsOf(raw) ==
    LET line == Strip(raw)
        c == _parse_attribute_or_skill_line(Locals, line, current_feature)
        d == _parse_feature_line(c, line)
    IN (IF ~StartsWith(Lower(line), "feature") /\ HasSigned(line)
        THEN _split_fragments(line) ELSE <<>>)
       \o (IF ~c.handled /\ d.ret # None /\ Contains(line, "-")
           THEN _split_fragments(Strip(AfterFirst(line, "-"))) ELSE <<>>)

\* the fragment has an effect type and a magnitude
Extractable(frag) ==
    LET c == _classify_target(store, frag)
    IN c.effect_type # None /\ _extract_magnitude(frag, c.effect_type) # NoTuple

\* C20: fragment accounting: a line that reaches effect extraction appends
\* one effect for each of its fragments that has an effect type and a
\* magnitude and one report entry (a warning or an unparsed effect) for each
\* other fragment, so that effects added plus report entries added equals the
\* number of fragments; effects already stored stay in place.
C20_FragmentAccounting ==
    [][ \A raw \in Vocab :
          LET frags == FragmentsOf(raw)
              good == Cardinality({ i \in 1..Len(frags) : Extractable(frags[i]) })
              b == _parse_language_line(_parse_size_movement_line(Locals, Strip(raw)),
                                        Strip(raw))
          IN (last' = <<"line", raw>> /\ ReachesCascade(raw) /\ ~b.handled)
             => /\ Len(store'.effects) = Len(store.effects) + good
                /\ SubSeq(store'.effects, 1, Len(store.effects)) = store.effects
                /\ Len(report'.warnings) + Len(report'.unparsed_effects)
                       = Len(report.warnings) + Len(report.unparsed_effects)
                         + Len(frags) - good ]_vars

\* "Deity Relationship: +2/spiritual" has just been processed: its first
\* fragment left a warning and its second an effect
C20_Witness ==
    /\ last = <<"line", "Deity Relationship: +2/spiritual">>
    /\ Len(report.warnings) = 1
    /\ Len(store.effects) = 1
    /\ store.effects[1].effect_type = "attribute_bonus"

\* the fragments of the line raw that have an effect type and a magnitude, in
\* order: the new effects of the line come from them one by one
ExtractableOf(raw) == SelectSeq(FragmentsOf(raw), Extractable)

\* C21: percent coercion: a line's fragment that contains "%" never yields an
\* effect of type skill_bonus (a skill bonus with a percent sign is stored as
\* damage_modifier), whether the inline-bonus recognizer or the feature
\* recognizer passed it to effect extraction.
C21_PercentCoercion ==
    [][ \A raw \in SectionVocab :
          (last' = <<"line", raw>> /\ ReachesCascade(raw))
          => \A i \in 1..Len(ExtractableOf(raw)) :
                 Contains(ExtractableOf(raw)[i], "%")
                 => /\ Len(store'.effects) >= Len(store.effects) + i
                    /\ store'.effects[Len(store.effects) + i].effect_type # "skill_bonus" ]_vars

\* the effect types of the classification rules, in their order
RuleTypes ==
    << "deity_relationship_cap", "resource_bonus", "damage_modifier", "skill_bonus",
       "attribute_bonus", "movement_mod", "language_grant", "resistance",
       "advantage_rule", "action_cost_mod", "derived_stat_bonus" >>

\* whether the trigger of each rule occurs in the lower-cased fragment
RuleTriggers(lowered) ==
    << Contains(lowered, "deity relationship"),
       Contains(lowered, "psi") /\ Contains(lowered, "point"),
       Contains(lowered, "damage"),
       \E i \in 1..Len(skill_aliases) : Contains(lowered, skill_aliases[i][1]),
       \E i \in 1..Len(attribute_aliases) : Contains(lowered, attribute_aliases[i][1]),
       Contains(lowered, "movement") \/ Contains(lowered, "speed"),
       Contains(lowered, "language"),
       Contains(lowered, "resistance"),
       Contains(lowered, "advantage") \/ Contains(lowered, "disadvantage"),
       Contains(lowered, "free action"),
       Contains(lowered, "initiative") >>

\* C22: _classify_target returns the effect type of the first rule, in the
\* order deity relationship, resource point, damage, skill alias, attribute
\* alias, movement/speed, language, resistance, advantage/disadvantage, free
\* action, initiative, whose trigger occurs in the fragment, and no effect
\* type when no trigger occurs.
C22_ClassificationOrder ==
    last[1] = "_classify_target" =>
        LET hits == { i \in 1..Len(RuleTypes) : RuleTriggers(Lower(last[2]))[i] }
        IN IF hits = {} THEN last[3] = None
           ELSE \E i \in hits : /\ \A j \in hits : i <= j
                                /\ last[3] = RuleTypes[i]

\* a fragment naming a skill and an attribute was classified as a skill bonus
C22_Witness ==
    /\ last[1] = "_classify_target"
    /\ last[2] = "Will Battle"
    /\ last[3] = "skill_bonus"
    /\ "BATTLE" \in DOMAIN store.skills

\* C23: every effect a line adds has applies_automatically false when the
\* fragment it came from contains "choice" (in any case) and true otherwise,
\* for feature declaration lines and inline bonus lines alike.
C23_ChoiceFlag ==
    [][ \A raw \in SectionVocab :
          (last' = <<"line", raw>> /\ ReachesCascade(raw))
          => \A i \in 1..Len(ExtractableOf(raw)) :
                 /\ Len(store'.effects) >= Len(store.effects) + i
                 /\ store'.effects[Len(store.effects) + i].applies_automatically
                        = ~Contains(Lower(ExtractableOf(raw)[i]), "choice") ]_vars

\* the text holds a digit / a digit directly followed by "%"
HasNumber(text) == \E i \in 1..Len(text) : Ch(text, i) \in DigitSet

HasPercentage(text) ==
    \E i \in 1..(Len(text) - 1) : Ch(text, i) \in DigitSet /\ Ch(text, i + 1) = "%"

\* C26: magnitude by keyword: a fragment with no number has magnitude
\* {rule: advantage} when it contains "advantage" but not "disadvantage",
\* {rule: disadvantage} when it contains "disadvantage", {rule: free_action}
\* when it contains "free action", and none otherwise; a percentage takes
\* precedence over a flat number and any number over the keywords (fragments
\* without the "/spiritual" form of the deity relationship cap).
C26_MagnitudeKeywords ==
    last[1] = "_extract_magnitude" =>
        LET Claimed(text, lowered, magnitude) ==
                IF HasPercentage(text) THEN DOMAIN magnitude = {"percent"}
                ELSE IF HasNumber(text) THEN DOMAIN magnitude = {"flat"}
                ELSE IF Contains(lowered, "disadvantage")
                THEN magnitude = [rule |-> "disadvantage"]
                ELSE IF Contains(lowered, "advantage")
                THEN magnitude = [rule |-> "advantage"]
                ELSE IF Contains(lowered, "free action")
                THEN magnitude = [rule |-> "free_action"]
                ELSE magnitude = NoTuple
        IN Claimed(last[2], Lower(last[2]), last[4])

\* C27: feature identifiers are unique: no two distinct feature records of
\* store.features have the same id, also when one feature name occurs under
\* two sources.
C27_FeatureIdsUnique ==
    \A i, j \in 1..Len(store.features) :
        store.features[i][2].id = store.features[j][2].id => i = j

\* the line raw reaches the fallback: it reaches the cascade and the
\* size/movement, language, inline-bonus and feature recognizers decline it
ReachesFallback(raw) ==
    LET line == Strip(raw)
        b == _parse_language_line(_parse_size_movement_line(Locals, line), line)
        c == _parse_attribute_or_skill_line(b, line, current_feature)
        d == _parse_feature_line(c, line)
    IN ReachesCascade(raw) /\ ~b.handled /\ ~c.handled /\ d.ret = None

\* the indices of the features with id current_feature under the active container
OpenFeature ==
    LET container == _current_container(current_lineage, current_culture)
        owner == IF current_culture # NoTuple THEN current_culture ELSE current_lineage
    IN { i \in 1..Len(store.features) :
           /\ store.features[i][2].id = current_feature
           /\ store.features[i][2].source_type = container[1]
           /\ store.features[i][2].source_id = owner[1] }

\* C24: description continuation: a line that reaches the fallback while a
\* feature is open is appended, newline-joined, to the description of that
\* open feature (the one under the active container) and changes no other
\* feature and no container description; with no feature open it is appended
\* to the description of the active container (culture if set, else lineage).
C24_DescriptionContinuation ==
    [][ \A raw \in SectionVocab :
          (last' = <<"line", raw>> /\ ReachesFallback(raw))
          => LET container == _current_container(current_lineage, current_culture)
             IN IF current_feature # None
                THEN /\ Len(store'.features) = Len(store.features)
                     /\ \A i \in 1..Len(store.features) :
                            store'.features[i] =
                                IF i \in OpenFeature
                                THEN [store.features[i] EXCEPT
                                          ![2].description = Joined(@, Strip(raw))]
                                ELSE store.features[i]
                     /\ store'.lineages = store.lineages
                     /\ store'.cultures = store.cultures
                ELSE /\ store'.features = store.features
                     /\ _lookup_entity(store', container).description
                            = Joined(_lookup_entity(store, container).description,
                                     Strip(raw)) ]_vars

\* the text of a heading line, of a subrace/culture declaration line and of a
\* feature declaration line
HeadingText(line) == HeadingMatch(line) /\ WordCount(line) <= 4

SubraceText(line) ==
    StartsWith(Lower(line), "subrace of") \/ StartsWith(Lower(line), "culture of")

FeatureText(line) ==
    \/ StartsWith(Lower(line), "feature")
    \/ /\ Contains(line, ":")
       /\ ~StartsWith(Lower(line), "languages")
       /\ ~EndsWith(Lower(line), "features:")

\* C25: context persistence: current_lineage, current_culture and
\* current_feature change only on a heading line, a subrace/culture
\* declaration line or a feature declaration line; a line handled by the
\* size/movement, language, inline-bonus or description-continuation
\* recognizer, a blank line and a skipped line leave all three unchanged.
C25_ContextPersistence ==
    [][ \A raw \in Vocab :
          LET line == Strip(raw)
              a == _parse_size_movement_line(Locals, line)
              b == _parse_language_line(Locals, line)
              c == _parse_attribute_or_skill_line(Locals, line, current_feature)
              context == <<current_lineage, current_culture, current_feature>>
              skipped == /\ ~HeadingText(line)
                         /\ current_lineage = NoTuple /\ current_culture = NoTuple
              recognized == /\ ReachesCascade(raw)
                            /\ \/ a.handled
                               \/ ~a.handled /\ b.handled
                               \/ ~a.handled /\ ~b.handled /\ c.handled
                               \/ ReachesFallback(raw)
          IN last' = <<"line", raw>>
             => /\ context' # context
                    => HeadingText(line) \/ SubraceText(line) \/ FeatureText(line)
                /\ (line = "" \/ skipped \/ recognized) => context' = context ]_vars

\* an inline bonus line was handled inside an open feature, which stayed open
C25_Witness ==
    /\ last = <<"line", "+2 Battle">>
    /\ current_lineage # NoTuple
    /\ current_feature # None
    /\ Len(store.effects) >= 2

====
